---- MODULE Spec2Model ----
(***************************************************************************)
(* paper-age: the end-to-end pipeline create_pdf of src/convenience.rs     *)
(* (option defaults, passphrase secret, encrypt_plaintext, Document::new,  *)
(* Document::create_pdf, error mapping), together with the stages it calls *)
(* (crate::encryption, crate::builder, crate::page), which are modelled    *)
(* from the design document where convenience.rs only calls them.          *)
(***************************************************************************)
EXTENDS Integers, Sequences, FiniteSets, TLC

VARIABLES
    args,               \* per call: the arguments of create_pdf
    pc,                 \* per call: position in create_pdf / its callees
    reader,             \* per call: the caller's BufRead (data)
    opts,               \* per call: the locals of lines 80-83
    passphrase_secret,  \* per call: the local SecretString of line 85
    calleeSecret,       \* per call: the secret as owned by encrypt_plaintext
    key,                \* per call: the derived symmetric key
    plain,              \* per call: plaintext read into memory
    salt,               \* per call: the salt generated by this encryption
    encrypted,          \* per frame: the local `encrypted` of line 87
    doc,                \* per call: the local `pdf` of line 90
    renderArgs,         \* per call: what Document::create_pdf was handed
    stageErr,           \* per call: the lower-level error of the failed stage
    calls,              \* per call: how often each stage was invoked
    result,             \* per call: the value create_pdf returned
    encCaps,            \* encoder harness: capacities of the size classes
    encLen,             \* encoder harness: payload length
    encLevel,           \* encoder harness: error-correction level
    encOut              \* encoder harness: result of Encode

vars == <<args, pc, reader, opts, passphrase_secret, calleeSecret, key, plain,
          salt, encrypted, doc, renderArgs, stageErr, calls, result,
          encCaps, encLen, encLevel, encOut>>

pipeVars == <<args, pc, reader, opts, passphrase_secret, calleeSecret, key,
              plain, salt, encrypted, doc, renderArgs, stageErr, calls, result>>

encVars == <<encCaps, encLen, encLevel, encOut>>

(***************************************************************************)
(* Bounds of the model.                                                    *)
(***************************************************************************)
MaxPlain == 3       \* longest plaintext, in bytes
NumThreads == 2     \* concurrent calls of create_pdf
NumClasses == 3     \* size classes of the encoder harness
MaxCap == 4         \* largest capacity the encoder harness draws

Byte == {0, 1}

RECURSIVE SeqsUpTo(_)
SeqsUpTo(n) ==
    IF n = 0 THEN {<<>>}
    ELSE LET shorter == SeqsUpTo(n - 1)
         IN  shorter \cup {Append(s, b) : s \in {t \in shorter : Len(t) = n - 1}, b \in Byte}

Plaintexts == SeqsUpTo(MaxPlain)

RECURSIVE Zeros(_)
Zeros(n) == IF n = 0 THEN <<>> ELSE Append(Zeros(n - 1), 0)

(***************************************************************************)
(* Option<T>: None is the empty tuple, Some(v) the one-element tuple.      *)
(***************************************************************************)
None == <<>>
Some(v) == <<v>>

unwrap_or(o, default) == IF o = None THEN default ELSE o[1]

PageSizes == {"A4", "Letter"}

ResolveNotesLabel(o) == unwrap_or(o, "Passphrase:")
ResolveSkipNotesLine(o) == unwrap_or(o, FALSE)
ResolvePageSizeLetter(o) == unwrap_or(o, "Letter")
ResolvePageSize(o) == unwrap_or(o, "A4")
ResolveGrid(o) == unwrap_or(o, FALSE)


(***************************************************************************)
(* PaperAgeError and its constructors as create_pdf applies them.          *)
(***************************************************************************)
NoResult == [kind |-> "None"]
NoError == [tag |-> "None"]

\* Display of the lower-level errors (e.to_string()).
to_string(e) ==
    CASE e.tag = "Io" -> <<"failed to read plaintext">>
      [] e.tag = "UnknownPageSize" -> <<"unknown page size", e.page_size>>
      [] e.tag = "Metadata" -> <<"cannot embed metadata", e.field>>
      [] e.tag = "CapacityExceeded" ->
            <<"capacity exceeded", ToString(e.payload_len), ToString(e.max_capacity)>>
      [] e.tag = "Layout" -> <<"module size below minimum", e.page_size>>
      [] OTHER -> <<>>

EncryptionErr(e) == [kind |-> "Encryption", msg |-> to_string(e)]
DocumentInitErrAsPdfCreation(e) == [kind |-> "PdfCreation", msg |-> to_string(e)]
DocumentInitErr(e) == [kind |-> "DocumentInit", msg |-> to_string(e)]
PdfCreationErrAsDefault(e) == [kind |-> "Ok", bytes |-> <<>>]
PdfCreationErr(e) == [kind |-> "PdfCreation", msg |-> to_string(e)]
OkEmpty(bytes) == [kind |-> "Ok", bytes |-> <<>>]
OkBytes(bytes) == [kind |-> "Ok", bytes |-> bytes]

\* Where create_pdf goes after a stage: `?` returns on Err, else the next line.
NextStageNoReturn(stage, ok) ==
    CASE stage = "encrypt" -> "docinit"
      [] stage = "docinit" -> "render"
      [] stage = "render" -> "return"
NextStage(stage, ok) ==
    IF ~ok THEN "done"
    ELSE CASE stage = "encrypt" -> "docinit"
           [] stage = "docinit" -> "render"
           [] stage = "render" -> "return"

\* The SecretString local after it is passed by value to encrypt_plaintext.
SecretClonedIntoCall(s) == s
SecretAfterCall(s) == "moved"

\* SecretString zeroizes on drop; a moved-out binding drops nothing.
DropSecret(s) == IF s = "live" THEN "zeroed" ELSE s

\* The frame holding the local `encrypted` of a call.
SharedSlot(c) == 1
EncryptedSlot(c) == c

\* The envelope create_pdf hands to Document::create_pdf.
RenderPayloadTruncated(env) == SubSeq(env, 1, IF Len(env) > 0 THEN Len(env) - 1 ELSE 0)
RenderPayload(env) == env

(***************************************************************************)
(* PassphraseCodec (crate::encryption), from the design document.          *)
(***************************************************************************)
ChunkSize == 2
Salts == {0, 1}
Passphrases == {"passphrase", "hunter2"}

\* Key derivation from (passphrase, salt); the work factor is a fixed constant.
DeriveKeyOf(passphrase, s) == ((IF passphrase = "hunter2" THEN 1 ELSE 0) + s) % 2

HeaderOf(s) == <<2, s>>

RECURSIVE SumSeq(_)
SumSeq(q) == IF q = <<>> THEN 0 ELSE Head(q) + SumSeq(Tail(q))

\* One authenticated chunk: the encrypted bytes and a tag bound to the index.
SealChunk(chunk, k, idx) ==
    [i \in 1..Len(chunk) |-> (chunk[i] + k + idx) % 2]
        \o <<(SumSeq(chunk) + k + idx) % 2>>

RECURSIVE SealChunks(_, _, _)
SealChunks(p, k, idx) ==
    IF Len(p) <= ChunkSize THEN SealChunk(p, k, idx)
    ELSE SealChunk(SubSeq(p, 1, ChunkSize), k, idx)
            \o SealChunks(SubSeq(p, ChunkSize + 1, Len(p)), k, idx + 1)

Envelope(p, k, s) == HeaderOf(s) \o SealChunks(p, k, 0)

(***************************************************************************)
(* SymbolEncoder, from the design document.                                *)
(***************************************************************************)
\* smallest to largest: the first class whose capacity >= len; 0 when none.
RECURSIVE FirstFitStrict(_, _, _)
FirstFitStrict(caps, len, i) ==
    IF i > Len(caps) THEN 0
    ELSE IF caps[i] > len THEN i
    ELSE FirstFitStrict(caps, len, i + 1)

RECURSIVE FirstFit(_, _, _)
FirstFit(caps, len, i) ==
    IF i > Len(caps) THEN 0
    ELSE IF caps[i] >= len THEN i
    ELSE FirstFit(caps, len, i + 1)

Encode(caps, len, level) ==
    LET class == FirstFit(caps, len, 1)
    IN  IF class = 0
        THEN [ok |-> FALSE,
              err |-> [tag |-> "CapacityExceeded", payload_len |-> len,
                       max_capacity |-> caps[Len(caps)]]]
        ELSE [ok |-> TRUE, class |-> class, level |-> level, len |-> len]

\* Byte capacity per error-correction level and size class.
CapacityTable ==
    [L |-> <<4, 6, 8>>, M |-> <<3, 5, 6>>, Q |-> <<2, 4, 5>>, H |-> <<1, 3, 4>>]

TargetLevel == "M"

(***************************************************************************)
(* PageGeometry and DocumentSynthesizer (crate::page, crate::builder),     *)
(* from the design document.                                               *)
(***************************************************************************)
\* millimetres
PageGeometry ==
    [A4 |-> [width |-> 210, height |-> 297, margin |-> 10],
     Letter |-> [width |-> 216, height |-> 279, margin |-> 10]]

Titles == {"Test Document", "Unencodable"}
TitleEmbeddable(t) == t # "Unencodable"

\* Document::new
DocumentNewOf(title, page_size) ==
    IF page_size \notin DOMAIN PageGeometry
    THEN [ok |-> FALSE, err |-> [tag |-> "UnknownPageSize", page_size |-> page_size]]
    ELSE IF ~TitleEmbeddable(title)
    THEN [ok |-> FALSE, err |-> [tag |-> "Metadata", field |-> "title"]]
    ELSE [ok |-> TRUE, title |-> title, page_size |-> page_size]

\* modules per side of a symbol of the class, quiet zone included
ModulesOf(class) == 17 + 4 * class + 2 * 4

\* the module size, in tenths of a millimetre, stays at or above the minimum
LayoutFits(page_size, class) ==
    LET g == PageGeometry[page_size]
    IN  ((g.width - 2 * g.margin) * 10) \div ModulesOf(class) >= 5

\* Document::create_pdf
RenderOf(handle, grid, notes_label, skip_notes_line, payload) ==
    LET sym == Encode(CapacityTable[TargetLevel], Len(payload), TargetLevel)
    IN  IF ~sym.ok THEN [ok |-> FALSE, err |-> sym.err]
        ELSE IF ~LayoutFits(handle.page_size, sym.class)
        THEN [ok |-> FALSE, err |-> [tag |-> "Layout", page_size |-> handle.page_size]]
        ELSE [ok |-> TRUE,
              bytes |-> <<[obj |-> "page", val |-> <<handle.page_size>>],
                          [obj |-> "title", val |-> <<handle.title>>],
                          [obj |-> "symbol", val |-> <<sym.class>> \o payload]>>
                        \o (IF skip_notes_line THEN <<>>
                            ELSE <<[obj |-> "notes", val |-> <<notes_label>>]>>)
                        \o (IF grid THEN <<[obj |-> "grid", val |-> <<>>]>> ELSE <<>>)]

(***************************************************************************)
(* create_pdf, one action per step of a call c.                            *)
(***************************************************************************)
Threads == 1..NumThreads

NoOpts == [resolved |-> FALSE]
NoDoc == [ok |-> FALSE]
NoRender == [called |-> FALSE]
NoCalls == [encrypt |-> 0, docinit |-> 0, render |-> 0]

OptionsOf(S) == {None} \cup {Some(v) : v \in S}

\* every combination of arguments
FullArgs ==
    [title : Titles, data : Plaintexts, readable : BOOLEAN,
     passphrase : Passphrases,
     notes_label : OptionsOf({"Recovery key:"}),
     skip_notes_line : OptionsOf(BOOLEAN),
     page_size : OptionsOf(PageSizes),
     grid : OptionsOf(BOOLEAN)]

\* the arguments that decide the outcome, all options defaulted
OutcomeArgs ==
    [title : Titles, data : {<<>>, Zeros(MaxPlain)}, readable : BOOLEAN,
     passphrase : {"passphrase"},
     notes_label : {None}, skip_notes_line : {None},
     page_size : {None}, grid : {None}]

PipeInit(T, A) ==
    /\ args \in [T -> A]
    /\ pc = [c \in T |-> "resolve"]
    /\ reader = [c \in T |-> [rest |-> args[c].data, ok |-> args[c].readable]]
    /\ opts = [c \in T |-> NoOpts]
    /\ passphrase_secret = [c \in T |-> "none"]
    /\ calleeSecret = [c \in T |-> "none"]
    /\ key = [c \in T |-> [state |-> "none"]]
    /\ plain = [c \in T |-> <<>>]
    /\ salt = [c \in T |-> 0]
    /\ encrypted = [c \in T |-> [some |-> FALSE]]
    /\ doc = [c \in T |-> NoDoc]
    /\ renderArgs = [c \in T |-> NoRender]
    /\ stageErr = [c \in T |-> NoError]
    /\ calls = [c \in T |-> NoCalls]
    /\ result = [c \in T |-> NoResult]

EncIdle ==
    /\ encCaps = [l \in {} |-> <<>>]
    /\ encLen = 0
    /\ encLevel = "L"
    /\ encOut = [called |-> FALSE]

\* lines 80-83
ResolveOptions(c) ==
    /\ pc[c] = "resolve"
    /\ opts' = [opts EXCEPT ![c] =
            [resolved |-> TRUE,
             notes_label |-> ResolveNotesLabel(args[c].notes_label),
             skip_notes_line |-> ResolveSkipNotesLine(args[c].skip_notes_line),
             page_size |-> ResolvePageSize(args[c].page_size),
             grid |-> ResolveGrid(args[c].grid)]]
    /\ pc' = [pc EXCEPT ![c] = "secret"]
    /\ UNCHANGED <<args, reader, passphrase_secret, calleeSecret, key, plain, salt,
                   encrypted, doc, renderArgs, stageErr, calls, result, encVars>>

\* line 85
MakeSecret(c) ==
    /\ pc[c] = "secret"
    /\ passphrase_secret' = [passphrase_secret EXCEPT ![c] = "live"]
    /\ pc' = [pc EXCEPT ![c] = "call_encrypt"]
    /\ UNCHANGED <<args, reader, opts, calleeSecret, key, plain, salt,
                   encrypted, doc, renderArgs, stageErr, calls, result, encVars>>

\* line 87: the call of encrypt_plaintext(data, passphrase_secret)
CallEncrypt(c) ==
    /\ pc[c] = "call_encrypt"
    /\ calls[c].encrypt < 2
    /\ calls' = [calls EXCEPT ![c].encrypt = @ + 1]
    /\ passphrase_secret' = [passphrase_secret EXCEPT ![c] = SecretAfterCall(@)]
    /\ calleeSecret' = [calleeSecret EXCEPT ![c] = "live"]
    /\ pc' = [pc EXCEPT ![c] = "read"]
    /\ UNCHANGED <<args, reader, opts, key, plain, salt,
                   encrypted, doc, renderArgs, stageErr, result, encVars>>

\* what every return of create_pdf does to the call's secrets
Return(c, res, next) ==
    /\ result' = [result EXCEPT ![c] = IF next = "done" THEN res ELSE @]
    /\ passphrase_secret' = [passphrase_secret EXCEPT ![c] =
            IF next = "done" THEN DropSecret(@) ELSE @]

\* encrypt_plaintext: the plaintext is read to exhaustion, or the read fails
\* and lines 87-88 return Encryption
ReadPlaintext(c) ==
    /\ pc[c] = "read"
    /\ IF reader[c].ok
       THEN /\ plain' = [plain EXCEPT ![c] = reader[c].rest]
            /\ reader' = [reader EXCEPT ![c].rest = <<>>]
            /\ pc' = [pc EXCEPT ![c] = "derive"]
            /\ UNCHANGED <<calleeSecret, stageErr, result, passphrase_secret>>
       ELSE LET e == [tag |-> "Io"]
                next == NextStage("encrypt", FALSE)
            IN  /\ stageErr' = [stageErr EXCEPT ![c] = e]
                /\ calleeSecret' = [calleeSecret EXCEPT ![c] = DropSecret(@)]
                /\ Return(c, EncryptionErr(e), next)
                /\ pc' = [pc EXCEPT ![c] = next]
                /\ UNCHANGED <<plain, reader>>
    /\ UNCHANGED <<args, opts, key, salt, encrypted, doc, renderArgs, calls, encVars>>

\* encrypt_plaintext: fresh salt, key derivation; the passphrase is wiped as
\* soon as the derivation that consumes it completes
DeriveKey(c) ==
    /\ pc[c] = "derive"
    /\ \E s \in Salts :
          /\ salt' = [salt EXCEPT ![c] = s]
          /\ key' = [key EXCEPT ![c] =
                  [state |-> "live", k |-> DeriveKeyOf(args[c].passphrase, s)]]
    /\ calleeSecret' = [calleeSecret EXCEPT ![c] = DropSecret(@)]
    /\ pc' = [pc EXCEPT ![c] = "cipher"]
    /\ UNCHANGED <<args, reader, opts, passphrase_secret, plain,
                   encrypted, doc, renderArgs, stageErr, calls, result, encVars>>

\* encrypt_plaintext: the chunks are sealed, the key zeroed, the envelope
\* returned into the local of line 87
EncryptChunks(c) ==
    /\ pc[c] = "cipher"
    /\ encrypted' = [encrypted EXCEPT ![EncryptedSlot(c)] =
            [some |-> TRUE, env |-> Envelope(plain[c], key[c].k, salt[c]),
             plaintext_len |-> Len(plain[c])]]
    /\ key' = [key EXCEPT ![c] = [state |-> "zeroed"]]
    /\ plain' = [plain EXCEPT ![c] = <<>>]
    /\ pc' = [pc EXCEPT ![c] = NextStage("encrypt", TRUE)]
    /\ UNCHANGED <<args, reader, opts, passphrase_secret, calleeSecret, salt,
                   doc, renderArgs, stageErr, calls, result, encVars>>

\* lines 90-91
DocumentNew(c) ==
    /\ pc[c] = "docinit"
    /\ calls[c].docinit < 2
    /\ calls' = [calls EXCEPT ![c].docinit = @ + 1]
    /\ LET r == DocumentNewOf(args[c].title, opts[c].page_size)
           next == NextStage("docinit", r.ok)
       IN  /\ doc' = [doc EXCEPT ![c] = IF r.ok THEN r ELSE @]
           /\ stageErr' = [stageErr EXCEPT ![c] = IF r.ok THEN @ ELSE r.err]
           /\ Return(c, IF r.ok THEN NoResult ELSE DocumentInitErr(r.err), next)
           /\ pc' = [pc EXCEPT ![c] = next]
    /\ UNCHANGED <<args, reader, opts, calleeSecret, key, plain, salt,
                   encrypted, renderArgs, encVars>>

\* lines 93-95
Render(c) ==
    /\ pc[c] = "render"
    /\ calls[c].render < 2
    /\ doc[c].ok
    /\ encrypted[EncryptedSlot(c)].some
    /\ calls' = [calls EXCEPT ![c].render = @ + 1]
    /\ LET payload == RenderPayload(encrypted[EncryptedSlot(c)].env)
           r == RenderOf(doc[c], opts[c].grid, opts[c].notes_label,
                         opts[c].skip_notes_line, payload)
           next == NextStage("render", r.ok)
       IN  /\ renderArgs' = [renderArgs EXCEPT ![c] =
                   [called |-> TRUE, grid |-> opts[c].grid,
                    notes_label |-> opts[c].notes_label,
                    skip_notes_line |-> opts[c].skip_notes_line,
                    page_size |-> doc[c].page_size,
                    payload |-> payload, out |-> r]]
           /\ stageErr' = [stageErr EXCEPT ![c] = IF r.ok THEN @ ELSE r.err]
           /\ Return(c, IF r.ok THEN NoResult ELSE PdfCreationErr(r.err), next)
           /\ pc' = [pc EXCEPT ![c] = next]
    /\ UNCHANGED <<args, reader, opts, calleeSecret, key, plain, salt,
                   encrypted, doc, encVars>>

\* line 97
ReturnOk(c) ==
    /\ pc[c] = "return"
    /\ Return(c, OkBytes(renderArgs[c].out.bytes), "done")
    /\ pc' = [pc EXCEPT ![c] = "done"]
    /\ UNCHANGED <<args, reader, opts, calleeSecret, key, plain, salt,
                   encrypted, doc, renderArgs, stageErr, calls, encVars>>

\* one call of create_pdf, over every combination of arguments
Init == PipeInit({1}, FullArgs) /\ EncIdle

Next ==
    \/ \E c \in DOMAIN pc : ResolveOptions(c)
    \/ \E c \in DOMAIN pc : MakeSecret(c)
    \/ \E c \in DOMAIN pc : CallEncrypt(c)
    \/ \E c \in DOMAIN pc : ReadPlaintext(c)
    \/ \E c \in DOMAIN pc : DeriveKey(c)
    \/ \E c \in DOMAIN pc : EncryptChunks(c)
    \/ \E c \in DOMAIN pc : DocumentNew(c)
    \/ \E c \in DOMAIN pc : Render(c)
    \/ \E c \in DOMAIN pc : ReturnOk(c)

Spec == Init /\ [][Next]_vars

\* concurrent calls of create_pdf, each with its own reader
InitConc == PipeInit(Threads, OutcomeArgs) /\ EncIdle
SpecConc == InitConc /\ [][Next]_vars

(***************************************************************************)
(* SymbolEncoder.Encode over every capacity table the data model allows.   *)
(***************************************************************************)
HarnessLevels == {"L", "M"}

NonDecreasing(row) == \A i \in 1..(Len(row) - 1) : row[i] <= row[i + 1]

Rows == {row \in [1..NumClasses -> 0..MaxCap] : NonDecreasing(row)}

InitEnc ==
    /\ PipeInit({}, FullArgs)
    /\ encCaps \in {t \in [HarnessLevels -> Rows] :
                        \A i \in 1..NumClasses : t["M"][i] <= t["L"][i]}
    /\ encLen \in 0..(MaxCap + 1)
    /\ encLevel \in HarnessLevels
    /\ encOut = [called |-> FALSE]

EncodeCall ==
    /\ ~encOut.called
    /\ encOut' = [called |-> TRUE, out |-> Encode(encCaps[encLevel], encLen, encLevel)]
    /\ UNCHANGED <<encCaps, encLen, encLevel, pipeVars>>

NextEnc == EncodeCall
SpecEnc == InitEnc /\ [][NextEnc]_vars

(***************************************************************************)
(* Properties.                                                             *)
(***************************************************************************)
Done(c) == pc[c] = "done"

\* the largest capacity at the level the render stage encodes at
MaxCapacity == CapacityTable[TargetLevel][Len(CapacityTable[TargetLevel])]

\* the envelope length of a plaintext: header, bytes, one tag per chunk
EnvelopeLen(p) == Len(Envelope(p, 0, 0))

AnyLive(c) ==
    \/ passphrase_secret[c] = "live"
    \/ calleeSecret[c] = "live"
    \/ key[c].state = "live"

\* C1: whenever create_pdf returns DocumentInit, encrypt_plaintext has not
\* been invoked and neither the passphrase nor the plaintext has been
\* processed.
C1_DocumentInitBeforeCrypto ==
    \A c \in DOMAIN pc :
        (Done(c) /\ result[c].kind = "DocumentInit") =>
            /\ calls[c].encrypt = 0
            /\ passphrase_secret[c] = "none"
            /\ reader[c].rest = args[c].data
            /\ ~encrypted[c].some

\* C2: create_pdf returns Ok exactly when encrypt_plaintext, Document::new
\* and Document::create_pdf all succeeded; otherwise it returns one of the
\* three error kinds and no bytes; the Ok bytes are the render stage's bytes;
\* nothing is returned before the call is done.
C2_OkIffAllStagesSucceeded ==
    \A c \in DOMAIN pc :
        /\ ~Done(c) => result[c].kind = "None"
        /\ Done(c) =>
            LET allOk == /\ encrypted[c].some
                         /\ doc[c].ok
                         /\ renderArgs[c].called
                         /\ renderArgs[c].out.ok
            IN  /\ (result[c].kind = "Ok") <=> allOk
                /\ allOk => result[c] = [kind |-> "Ok", bytes |-> renderArgs[c].out.bytes]
                /\ ~allOk =>
                    /\ result[c].kind \in {"Encryption", "DocumentInit", "PdfCreation"}
                    /\ DOMAIN result[c] = {"kind", "msg"}

C2_Witness ==
    \E c \in DOMAIN pc :
        /\ Done(c)
        /\ result[c].kind = "Ok"
        /\ result[c].bytes = renderArgs[c].out.bytes
        /\ Len(result[c].bytes) >= 3

\* C3: the error kind names the stage that failed and carries that stage's
\* message unchanged: encrypt_plaintext -> Encryption, Document::new ->
\* DocumentInit, Document::create_pdf -> PdfCreation, and no kind is reported
\* for another stage's failure.
C3_ErrorKindNamesFailedStage ==
    \A c \in DOMAIN pc :
        Done(c) =>
            LET encFailed == calls[c].encrypt >= 1 /\ ~encrypted[c].some
                docFailed == calls[c].docinit >= 1 /\ ~doc[c].ok
                renFailed == renderArgs[c].called /\ ~renderArgs[c].out.ok
            IN  /\ encFailed <=> result[c].kind = "Encryption"
                /\ docFailed <=> result[c].kind = "DocumentInit"
                /\ renFailed <=> result[c].kind = "PdfCreation"
                /\ encFailed => /\ stageErr[c].tag = "Io"
                                /\ result[c].msg = <<"failed to read plaintext">>
                /\ docFailed => /\ stageErr[c].tag \in {"Metadata", "UnknownPageSize"}
                                /\ result[c].msg = to_string(stageErr[c])
                /\ renFailed => /\ stageErr[c] = renderArgs[c].out.err
                                /\ result[c].msg = to_string(renderArgs[c].out.err)

C3_Witness ==
    \E c \in DOMAIN pc :
        /\ Done(c)
        /\ calls[c].docinit = 1
        /\ ~doc[c].ok
        /\ result[c] = [kind |-> "DocumentInit", msg |-> <<"cannot embed metadata", "title">>]

C5_OptionsResolveToDefaults ==
    \A c \in DOMAIN pc :
        LET a == args[c]
            label == IF a.notes_label = None THEN "Passphrase:" ELSE a.notes_label[1]
            skip == IF a.skip_notes_line = None THEN FALSE ELSE a.skip_notes_line[1]
            page == IF a.page_size = None THEN "A4" ELSE a.page_size[1]
            grid == IF a.grid = None THEN FALSE ELSE a.grid[1]
        IN  /\ doc[c].ok => doc[c].page_size = page
            /\ renderArgs[c].called =>
                /\ renderArgs[c].notes_label = label
                /\ renderArgs[c].skip_notes_line = skip
                /\ renderArgs[c].page_size = page
                /\ renderArgs[c].grid = grid

C5_Witness ==
    \E c \in DOMAIN pc :
        /\ args[c].notes_label = Some("Recovery key:")
        /\ args[c].skip_notes_line = None
        /\ args[c].page_size = None
        /\ args[c].grid = Some(TRUE)
        /\ renderArgs[c].called
        /\ renderArgs[c].notes_label = "Recovery key:"
        /\ renderArgs[c].skip_notes_line = FALSE
        /\ renderArgs[c].page_size = "A4"
        /\ renderArgs[c].grid = TRUE

C7_SmallestFittingClass ==
    encOut.called =>
        LET caps == encCaps[encLevel]
            o == encOut.out
        IN  /\ o.ok <=> encLen <= caps[Len(caps)]
            /\ o.ok =>
                /\ o.class \in 1..Len(caps)
                /\ caps[o.class] >= encLen
                /\ \A j \in 1..(o.class - 1) : caps[j] < encLen
                /\ o.level = encLevel
            /\ ~o.ok =>
                o.err = [tag |-> "CapacityExceeded", payload_len |-> encLen,
                         max_capacity |-> caps[Len(caps)]]

C7_Witness ==
    /\ encOut.called
    /\ encOut.out.ok
    /\ encOut.out.class = 2
    /\ encLen = encCaps[encLevel][2]
    /\ encLen = encCaps[encLevel][1] + 1
    /\ encCaps[encLevel][3] > encLen

AloneKind(a) ==
    IF ~a.readable THEN "Encryption"
    ELSE IF ~TitleEmbeddable(a.title) THEN "DocumentInit"
    ELSE IF EnvelopeLen(a.data) > MaxCapacity THEN "PdfCreation"
    ELSE "Ok"

\* C9: the stages run in the order encrypt_plaintext, Document::new,
\* Document::create_pdf, each at most once and to completion, a stage only
\* after every earlier one succeeded; the error returned is that of the
\* earliest stage that fails.
C9_StagesInOrderNoRetry ==
    \A c \in DOMAIN pc :
        /\ calls[c].encrypt <= 1 /\ calls[c].docinit <= 1 /\ calls[c].render <= 1
        /\ calls[c].docinit >= 1 => (calls[c].encrypt = 1 /\ encrypted[c].some)
        /\ calls[c].render >= 1 => (calls[c].docinit = 1 /\ doc[c].ok)
        /\ pc[c] \in {"read", "derive", "cipher"} =>
                (calls[c].encrypt = 1 /\ calls[c].docinit = 0 /\ calls[c].render = 0)
        /\ pc[c] = "render" => calls[c].render = 0
        /\ Done(c) => result[c].kind = AloneKind(args[c])
        /\ (Done(c) /\ result[c].kind = "Encryption") =>
                (calls[c].docinit = 0 /\ calls[c].render = 0)
        /\ (Done(c) /\ result[c].kind = "DocumentInit") => calls[c].render = 0

C9_Witness ==
    \E c \in DOMAIN pc :
        /\ Done(c)
        /\ ~args[c].readable
        /\ ~TitleEmbeddable(args[c].title)
        /\ EnvelopeLen(args[c].data) > MaxCapacity
        /\ result[c].kind = "Encryption"
        /\ calls[c] = [encrypt |-> 1, docinit |-> 0, render |-> 0]

\* C10: under every interleaving of concurrent calls, each with its own
\* reader, a call's outcome kind is the outcome of that call run alone, and
\* what a call reads, encrypts and renders comes from its own arguments.
C10_ConcurrentCallsIndependent ==
    \A c \in DOMAIN pc :
        /\ Done(c) => result[c].kind = AloneKind(args[c])
        /\ reader[c].rest \in {args[c].data, <<>>}
        /\ pc[c] \in {"resolve", "secret", "call_encrypt", "read"} =>
                (reader[c].rest = args[c].data /\ ~encrypted[c].some)
        /\ pc[c] \in {"derive", "cipher"} => plain[c] = args[c].data
        /\ encrypted[c].some =>
                /\ encrypted[c].plaintext_len = Len(args[c].data)
                /\ Len(encrypted[c].env) = EnvelopeLen(args[c].data)
                /\ encrypted[c].env[2] = salt[c]
        /\ renderArgs[c].called => renderArgs[c].payload = encrypted[c].env

C10_Witness ==
    \E c, d \in DOMAIN pc :
        /\ c # d
        /\ Done(c) /\ result[c].kind = "PdfCreation"
        /\ pc[d] = "cipher"
        /\ args[d].data = <<>>

====
